---- MODULE Spec2Model ----
(***************************************************************************)
(* A model of cdt_db_catalog.py, a Streamlit page that browses a           *)
(* PostgreSQL catalog: two queries (TABLES_SQL, CATALOG_SQL), the two      *)
(* functions that run them behind st.cache_data(ttl=300), and the script   *)
(* body that every user interaction re-runs from top to bottom.            *)
(*                                                                         *)
(* Strings are sequences of one-character strings, so that lower(),        *)
(* strip(), the pattern search of str.contains and ORDER BY are computed   *)
(* character by character.                                                 *)
(***************************************************************************)
EXTENDS Integers, Sequences, FiniteSets, TLC

VARIABLES
    env,             \* os.environ as read by lines 12-16
    relations,       \* the database: the relations that exist
    pg_description,  \* the database: pg_catalog.pg_description
    dbChanges,       \* how many DDL / COMMENT statements other sessions ran
    now,             \* wall clock, seconds
    tables_cache,    \* st.cache_data store of fetch_tables
    catalog_cache,   \* st.cache_data store of fetch_catalog
    runs,            \* how many times the script has run
    calls,           \* how many direct calls of the cached functions were made
    out              \* what the last run of the script did and showed

vars == <<env, relations, pg_description, dbChanges, now, tables_cache,
          catalog_cache, runs, calls, out>>

-----------------------------------------------------------------------------
(* Bounds of the model *)

MaxDbChanges == 1
MaxTicks == 2
MaxRuns == 2
MaxCalls == 3

-----------------------------------------------------------------------------
(* Strings *)

\* SQL NULL / Python None / pandas NaN: no string over any alphabet.
NULL == <<"NULL">>

\* ASCII codes of the characters the model uses (ORDER BY on the name type
\* compares bytes).
Code(c) ==
    CASE c = " " -> 32
      [] c = "(" -> 40
      [] c = "." -> 46
      [] c = "A" -> 65
      [] c = "D" -> 68
      [] c = "a" -> 97
      [] c = "b" -> 98
      [] c = "c" -> 99
      [] c = "d" -> 100
      [] c = "f" -> 102
      [] c = "i" -> 105
      [] c = "l" -> 108
      [] c = "n" -> 110
      [] c = "u" -> 117
      [] c = "v" -> 118

RECURSIVE StrLess(_, _)
StrLess(a, b) ==
    IF a = <<>> THEN b # <<>>
    ELSE IF b = <<>> THEN FALSE
    ELSE IF Head(a) = Head(b) THEN StrLess(Tail(a), Tail(b))
    ELSE Code(Head(a)) < Code(Head(b))

StrLeq(a, b) == a = b \/ StrLess(a, b)

\* str.lower() on one character
LowerChar(c) ==
    CASE c = "A" -> "a"
      [] c = "D" -> "d"
      [] OTHER -> c

\* str.lower()
lower(s) == [i \in 1..Len(s) |-> LowerChar(s[i])]

IsSpace(c) == c = " "

RECURSIVE lstrip(_)
lstrip(s) == IF s # <<>> /\ IsSpace(Head(s)) THEN lstrip(Tail(s)) ELSE s

RECURSIVE rstrip(_)
rstrip(s) ==
    IF s # <<>> /\ IsSpace(s[Len(s)]) THEN rstrip(SubSeq(s, 1, Len(s) - 1))
    ELSE s

\* str.strip()
strip(s) == rstrip(lstrip(s))

\* re.compile(pat): "(" opens a group that nothing over the model's alphabet
\* closes, so the pattern does not compile (re.error).
PatternCompiles(pat) == \A j \in 1..Len(pat) : pat[j] # "("

\* re.search(pat, s) is not None, for a pattern that compiles: "." matches
\* any character (there is no newline in the alphabet), every other
\* character of the alphabet matches itself.
PatternSearch(pat, s) ==
    \E i \in 0..(Len(s) - Len(pat)) :
        \A j \in 1..Len(pat) : pat[j] = "." \/ s[i + j] = pat[j]

\* pandas Series.str.contains(pat, na=False) on one value; regex=True is the
\* default of the call at lines 127-130.
str_contains(s, pat) == IF s = NULL THEN FALSE ELSE PatternSearch(pat, s)

-----------------------------------------------------------------------------
(* The database *)

\* Line 97: the schemas the page offers.
schema_choices == <<"org", "src", "stg">>

Schemas == {schema_choices[i] : i \in 1..Len(schema_choices)}

Col(name, type, nullable) ==
    [column_name |-> name, data_type |-> type, is_nullable |-> nullable]

\* The relations other sessions may create and drop.  "u" declares its
\* columns in the order (id, ab), which is not the alphabetical one; one
\* table is named like the selector's sentinel; "v" is a view; schema src
\* holds a foreign table that is also named "u"; schema stg stays empty.
RelU ==
    [oid |-> 1, schema |-> "org", name |-> <<"u">>, type |-> "BASE TABLE",
     columns |-> <<Col(<<"i", "d">>, "integer", "NO"),
                   Col(<<"a", "b">>, "text", "YES")>>]

RelAll ==
    [oid |-> 2, schema |-> "org", name |-> <<"A", "l", "l">>,
     type |-> "BASE TABLE", columns |-> <<Col(<<"a">>, "text", "YES")>>]

RelV ==
    [oid |-> 3, schema |-> "org", name |-> <<"v">>, type |-> "VIEW",
     columns |-> <<Col(<<"b">>, "text", "YES")>>]

RelF ==
    [oid |-> 4, schema |-> "src", name |-> <<"u">>, type |-> "FOREIGN",
     columns |-> <<Col(<<"c">>, "integer", "NO")>>]

Universe == {RelU, RelAll, RelV, RelF}

\* Comments that COMMENT ON TABLE / COLUMN may set.
ClassComments == {<<"D", "a">>}

\* pg_description is keyed by (objoid, classoid, objsubid): oids are unique
\* within one catalog only, so a function of pg_proc may carry the oid of a
\* table of pg_class.
ClassOids == {"pg_class", "pg_proc"}
ProcOids == {RelU.oid}
ProcComments == {<<"f", "n">>}

Desc(objoid, classoid, objsubid, description) ==
    [objoid |-> objoid, classoid |-> classoid, objsubid |-> objsubid,
     description |-> description]

\* information_schema.tables
information_schema_tables ==
    {[table_schema |-> r.schema, table_name |-> r.name, table_type |-> r.type]
        : r \in relations}

\* information_schema.columns
information_schema_columns ==
    UNION {{[table_schema |-> r.schema, table_name |-> r.name,
             column_name |-> r.columns[i].column_name,
             ordinal_position |-> i,
             data_type |-> r.columns[i].data_type,
             is_nullable |-> r.columns[i].is_nullable]
              : i \in 1..Len(r.columns)} : r \in relations}

\* pg_catalog.pg_statio_all_tables: one row per table (relkind r, t, m); a
\* view or a foreign table has none.
pg_statio_all_tables ==
    {[relid |-> r.oid, schemaname |-> r.schema, relname |-> r.name]
        : r \in {x \in relations : x.type = "BASE TABLE"}}

-----------------------------------------------------------------------------
(* The queries *)

RECURSIVE SortNames(_)
SortNames(S) ==
    IF S = {} THEN <<>>
    ELSE LET m == CHOOSE x \in S : \A y \in S : StrLeq(x, y)
         IN  <<m>> \o SortNames(S \ {m})

\* Lines 30-36.
TABLES_SQL(schema) ==
    SortNames({t.table_name : t \in
        {x \in information_schema_tables :
            /\ x.table_schema = schema
            /\ x.table_type \in {"BASE TABLE", "VIEW"}}})

\* ORDER BY c.table_name, c.column_name
OrderByLeq_ColumnName(c, d) ==
    \/ StrLess(c.table_name, d.table_name)
    \/ /\ c.table_name = d.table_name
       /\ StrLeq(c.column_name, d.column_name)

\* Line 66: ORDER BY c.table_name, c.ordinal_position
OrderByLeq(c, d) ==
    \/ StrLess(c.table_name, d.table_name)
    \/ /\ c.table_name = d.table_name
       /\ c.ordinal_position <= d.ordinal_position

RECURSIVE OrderBy(_)
OrderBy(S) ==
    IF S = {} THEN <<>>
    ELSE LET m == CHOOSE x \in S : \A y \in S : OrderByLeq(x, y)
         IN  <<m>> \o OrderBy(S \ {m})

\* The rows of pg_description that a LEFT JOIN ... ON cond matches, in the
\* order the scan meets them; one NULL row when none matches.
RECURSIVE ScanMatches(_, _, _)
ScanMatches(scan, relid, subid) ==
    IF scan = <<>> THEN <<>>
    ELSE LET hit == {d \in pg_description :
                        /\ d.classoid = Head(scan)
                        /\ relid # 0
                        /\ d.objoid = relid
                        /\ d.objsubid = subid}
         IN  (IF hit = {} THEN <<>> ELSE <<(CHOOSE d \in hit : TRUE).description>>)
             \o ScanMatches(Tail(scan), relid, subid)

LeftJoinDescription(scan, relid, subid) ==
    LET m == ScanMatches(scan, relid, subid)
    IN  IF m = <<>> THEN <<NULL>> ELSE m

\* Lines 54-62 for one row c of information_schema.columns: the joined rows,
\* with the SELECT list of lines 40-52.
JoinedRows(c, scan) ==
    LET st == {s \in pg_statio_all_tables :
                  c.table_schema = s.schemaname /\ c.table_name = s.relname}
        relid == IF st = {} THEN 0 ELSE (CHOOSE s \in st : TRUE).relid
        td == LeftJoinDescription(scan, relid, 0)
        cd == LeftJoinDescription(scan, relid, c.ordinal_position)
        row(i, j) == [table_schema |-> c.table_schema,
                      table_name |-> c.table_name,
                      table_description |-> td[i],
                      column_name |-> c.column_name,
                      data_type |-> c.data_type,
                      is_nullable |-> c.is_nullable,
                      column_description |-> cd[j]]
    IN  [k \in 1..(Len(td) * Len(cd)) |->
            row(((k - 1) \div Len(cd)) + 1, ((k - 1) % Len(cd)) + 1)]

RECURSIVE Flatten(_)
Flatten(ss) == IF ss = <<>> THEN <<>> ELSE Head(ss) \o Flatten(Tail(ss))

\* Line 64 alone: the table list is not looked at.
Where_SchemaOnly(c, schema, tables, all_tables) == c.table_schema = schema

\* Lines 64-65.
Where(c, schema, tables, all_tables) ==
    /\ c.table_schema = schema
    /\ (all_tables \/ \E i \in 1..Len(tables) : c.table_name = tables[i])

\* Lines 39-67.  Rows with equal sort keys come in the order of the scan.
CATALOG_SQL(schema, tables, all_tables, scan) ==
    LET cs == OrderBy({c \in information_schema_columns :
                          Where(c, schema, tables, all_tables)})
    IN  Flatten([k \in 1..Len(cs) |-> JoinedRows(cs[k], scan)])

-----------------------------------------------------------------------------
(* Configuration and the connection provider *)

EnvNames == {"DB_USER", "DB_PASSWORD", "DB_HOST", "DB_PORT", "DB_NAME"}

\* os.getenv gives None for a variable that is not set.
None == "<None>"

\* Python truthiness of an os.getenv result.
Truthy(v) == v # None /\ v # ""

\* Line 23: all([USER, PASSWORD, HOST, PORT, DBNAME])
all_set == \A v \in EnvNames : Truthy(env[v])

\* get_engine without line 25: the error is shown and the run goes on.
get_engine_NoStop ==
    IF ~all_set
    THEN [error |-> TRUE, stopped |-> FALSE, engine |-> TRUE]
    ELSE [error |-> FALSE, stopped |-> FALSE, engine |-> TRUE]

\* Lines 22-27.  st.stop() ends the run: nothing after line 25 executes.
get_engine ==
    IF ~all_set
    THEN [error |-> TRUE, stopped |-> TRUE, engine |-> FALSE]
    ELSE [error |-> FALSE, stopped |-> FALSE, engine |-> TRUE]

-----------------------------------------------------------------------------
(* The cached functions *)

\* Lines 69 and 76: ttl=300
TTL == 300

\* A cache slot: the stored result and the time it was stored; at = -1 when
\* nothing is stored.
NoEntry == [at |-> -1, value |-> <<>>]

\* st.cache_data without ttl: a stored result is served for ever.
Live_NoExpiry(e) == e.at >= 0

\* st.cache_data(ttl=300): a stored result is served until ttl seconds
\* after it was stored.
Live(e) == e.at >= 0 /\ now - e.at < TTL

\* What the record of a run keeps of a call: whether it queried the
\* database, and the slot it found (when stored, and what).
CallInfo(e, queried) ==
    [made |-> TRUE, queried |-> queried, entryAt |-> e.at,
     entryValue |-> e.value]

NoCall ==
    [made |-> FALSE, queried |-> FALSE, entryAt |-> -1, entryValue |-> <<>>]

\* Lines 69-74.
fetch_tables(schema) ==
    LET e == tables_cache[schema]
    IN  IF Live(e)
        THEN [stopped |-> FALSE, engines |-> 0, value |-> e.value,
              info |-> CallInfo(e, FALSE),
              entry |-> e]
        ELSE IF get_engine.stopped
        THEN [stopped |-> TRUE, engines |-> 0, value |-> <<>>,
              info |-> CallInfo(e, FALSE), entry |-> e]
        ELSE LET v == TABLES_SQL(schema)
             IN  [stopped |-> FALSE,
                  engines |-> IF get_engine.engine THEN 1 ELSE 0, value |-> v,
                  info |-> CallInfo(e, TRUE),
                  entry |-> [at |-> now, value |-> v]]

\* Lines 90-91 left out: the values stay as the query gave them.
fillna_Identity(v) == v

\* Series.fillna("")
fillna(v) == IF v = NULL THEN <<>> ELSE v

\* Lines 90-91.
FillDescriptions(df) ==
    [k \in 1..Len(df) |->
        [df[k] EXCEPT !.table_description = fillna(@),
                      !.column_description = fillna(@)]]

CatalogEntry(schema, tables) ==
    LET hit == {e \in catalog_cache : e.schema = schema /\ e.tables = tables}
    IN  IF hit = {} THEN NoEntry
        ELSE LET e == CHOOSE x \in hit : TRUE
             IN  [at |-> e.at, value |-> e.value]

PutCatalogEntry(schema, tables, e) ==
    {x \in catalog_cache : ~(x.schema = schema /\ x.tables = tables)}
    \cup {[schema |-> schema, tables |-> tables, at |-> e.at,
           value |-> e.value]}

\* Lines 76-92.
fetch_catalog(schema, tables, scan) ==
    LET e == CatalogEntry(schema, tables)
    IN  IF Live(e)
        THEN [stopped |-> FALSE, engines |-> 0, value |-> e.value,
              info |-> CallInfo(e, FALSE),
              entry |-> e]
        ELSE IF get_engine.stopped
        THEN [stopped |-> TRUE, engines |-> 0, value |-> <<>>,
              info |-> CallInfo(e, FALSE), entry |-> e]
        ELSE LET all_tables == (Len(tables) = 0)
                 v == FillDescriptions(
                          CATALOG_SQL(schema, tables, all_tables, scan))
             IN  [stopped |-> FALSE,
                  engines |-> IF get_engine.engine THEN 1 ELSE 0, value |-> v,
                  info |-> CallInfo(e, TRUE),
                  entry |-> [at |-> now, value |-> v]]

-----------------------------------------------------------------------------
(* The script body, lines 94-193 *)

\* Line 102: the selector's first entry.
All == <<"A", "l", "l">>

\* Line 160.
NoDescription == <<"(No table description found)">>

\* Line 102.
TableOptions(tables_in_schema) == <<All>> \o tables_in_schema

\* Line 112.
SelectedTables(selected_table) ==
    IF selected_table = All THEN <<>> ELSE <<selected_table>>

\* Lines 126-131: the rows the boolean mask keeps, in their order.
MaskKeeps(r, f) ==
    \/ str_contains(lower(r.table_name), f)
    \/ str_contains(lower(r.column_name), f)
    \/ str_contains(lower(r.table_description), f)
    \/ str_contains(lower(r.column_description), f)

RECURSIVE Mask(_, _)
Mask(df, f) ==
    IF df = <<>> THEN <<>>
    ELSE (IF MaskKeeps(Head(df), f) THEN <<Head(df)>> ELSE <<>>)
         \o Mask(Tail(df), f)

\* Lines 124-131.  raised: str.contains could not compile the pattern and
\* the run ends with that exception.
TextFilter(df, text_filter) ==
    IF strip(text_filter) # <<>>
    THEN LET f == lower(strip(text_filter))
         IN  IF PatternCompiles(f)
             THEN [raised |-> FALSE, df |-> Mask(df, f)]
             ELSE [raised |-> TRUE, df |-> <<>>]
    ELSE [raised |-> FALSE, df |-> df]

\* Lines 135-137.
Metrics(selected_schema, df) ==
    <<selected_schema,
      Cardinality({df[k].table_name : k \in 1..Len(df)}),
      Len(df)>>

\* Lines 141-143 left out.
StopsOnEmpty_Never(df) == FALSE

\* Line 141.
StopsOnEmpty(df) == df = <<>>

\* Series.dropna()
dropna(xs) == SelectSeq(xs, LAMBDA x : x # NULL)

\* Series.drop_duplicates(): the first occurrence of each value.
RECURSIVE drop_duplicates(_)
drop_duplicates(xs) ==
    IF xs = <<>> THEN <<>>
    ELSE LET init == drop_duplicates(SubSeq(xs, 1, Len(xs) - 1))
             last == xs[Len(xs)]
         IN  IF \E k \in 1..Len(init) : init[k] = last THEN init
             ELSE Append(init, last)

\* Lines 153-160.
DescVal(df, table_for_desc) ==
    LET of_table == SelectSeq(df, LAMBDA r : r.table_name = table_for_desc)
        desc_series == drop_duplicates(dropna(
            [k \in 1..Len(of_table) |-> of_table[k].table_description]))
    IN  IF desc_series # <<>> THEN desc_series[1] ELSE NoDescription

NoPanel == [kind |-> "none", table |-> <<>>, value |-> <<>>]

\* Lines 146-168.
Panel(df, selected_table) ==
    IF selected_table = All
    THEN [kind |-> "hint", table |-> <<>>, value |-> <<>>]
    ELSE [kind |-> "table", table |-> selected_table,
          value |-> DescVal(df, selected_table)]

\* Lines 171-193.
Listing(df) ==
    [k \in 1..Len(df) |->
        [column_name |-> df[k].column_name, data_type |-> df[k].data_type,
         column_description |-> df[k].column_description]]

\* The record of a run that has only read its widgets.
Started(selected_schema, text_filter) ==
    [op |-> "script", at |-> now, dbv |-> dbChanges,
     selected_schema |-> selected_schema, text_filter |-> text_filter,
     tcall |-> NoCall, tables_in_schema |-> <<>>, table_options |-> <<>>,
     selected_index |-> 0, selected_table |-> <<>>, selected_tables |-> <<>>,
     ccall |-> NoCall, fetched |-> FALSE, df |-> <<>>,
     filtered |-> FALSE, shown |-> <<>>,
     halted |-> "no", config_error |-> FALSE, engines |-> 0,
     metrics |-> <<>>, no_results |-> FALSE, panel |-> NoPanel,
     listed |-> FALSE, listing |-> <<>>]

NotRun ==
    [Started("", <<>>) EXCEPT !.op = "none", !.at = 0, !.dbv = 0]

\* Lines 98-193 once fetch_tables has returned t and the selector gives the
\* entry at index idx of its options.
Script(selected_schema, text_filter, t, idx, scan) ==
    LET table_options == TableOptions(t.value)
        selected_table == table_options[idx]
        selected_tables == SelectedTables(selected_table)
        c == fetch_catalog(selected_schema, selected_tables, scan)
        o1 == [Started(selected_schema, text_filter) EXCEPT
                  !.tcall = t.info, !.tables_in_schema = t.value,
                  !.table_options = table_options, !.selected_index = idx,
                  !.selected_table = selected_table,
                  !.selected_tables = selected_tables,
                  !.ccall = c.info, !.engines = t.engines + c.engines]
        flt == TextFilter(c.value, text_filter)
        o2 == [o1 EXCEPT !.fetched = TRUE, !.df = c.value]
        o3 == [o2 EXCEPT !.filtered = TRUE, !.shown = flt.df,
                         !.metrics = Metrics(selected_schema, flt.df)]
    IN  [cache |-> PutCatalogEntry(selected_schema, selected_tables, c.entry),
         out |->
            IF c.stopped
            THEN [o1 EXCEPT !.halted = "config", !.config_error = TRUE]
            ELSE IF flt.raised THEN [o2 EXCEPT !.halted = "exception"]
            ELSE IF StopsOnEmpty(flt.df)
            THEN [o3 EXCEPT !.halted = "empty", !.no_results = TRUE]
            ELSE [o3 EXCEPT !.panel = Panel(flt.df, selected_table),
                            !.listed = TRUE, !.listing = Listing(flt.df)]]

-----------------------------------------------------------------------------
(* Inputs *)

\* What the user may have typed into the text filter: nothing, blanks, an
\* upper-case letter with blanks around it, the pattern ".", and a pattern
\* that does not compile.
FilterInputs ==
    {<<>>, <<" ">>, <<" ", "D", " ">>, <<".">>, <<"(">>}

\* The orders in which a scan may meet the rows of pg_description.
ScanOrders == {<<"pg_class", "pg_proc">>, <<"pg_proc", "pg_class">>}

\* The scan orders that can give different results: the order matters only
\* when rows of both catalogs are there to be met.
ScanChoices ==
    IF \E d \in pg_description : d.classoid = "pg_proc"
    THEN ScanOrders
    ELSE {<<"pg_class", "pg_proc">>}

\* The environments the process may start in: complete, or with one of the
\* five variables unset or empty.
Environments ==
    {[v \in EnvNames |-> "x"]}
    \cup {[v \in EnvNames |-> IF v = w THEN bad ELSE "x"]
            : w \in EnvNames, bad \in {None, ""}}

-----------------------------------------------------------------------------
(* The state machine *)

Init ==
    /\ env \in Environments
    /\ relations = {RelU, RelAll, RelF}
    /\ pg_description =
          {Desc(RelU.oid, "pg_class", 0, <<"D", "a">>),
           Desc(RelU.oid, "pg_class", 2, <<"D", "a">>)}
    /\ dbChanges = 0
    /\ now = 0
    /\ tables_cache = [s \in Schemas |-> NoEntry]
    /\ catalog_cache = {}
    /\ runs = 0
    /\ calls = 0
    /\ out = NotRun

\* A user interaction: Streamlit runs the script from top to bottom with the
\* widgets' values.
Rerun ==
    /\ runs < MaxRuns
    /\ runs' = runs + 1
    /\ UNCHANGED <<env, relations, pg_description, dbChanges, now, calls>>
    /\ \E selected_schema \in Schemas, text_filter \in FilterInputs,
       scan \in ScanChoices :
        LET t == fetch_tables(selected_schema)
        IN  IF t.stopped
            THEN /\ out' = [Started(selected_schema, text_filter) EXCEPT
                               !.tcall = t.info, !.halted = "config",
                               !.config_error = TRUE]
                 /\ UNCHANGED <<tables_cache, catalog_cache>>
            ELSE \E idx \in 1..Len(TableOptions(t.value)) :
                    LET r == Script(selected_schema, text_filter, t, idx, scan)
                    IN  /\ out' = r.out
                        /\ tables_cache' =
                              [tables_cache EXCEPT ![selected_schema] = t.entry]
                        /\ catalog_cache' = r.cache

\* Time passes.
Advance ==
    /\ now + (TTL \div 2) <= MaxTicks * (TTL \div 2)
    /\ now' = now + (TTL \div 2)
    /\ UNCHANGED <<env, relations, pg_description, dbChanges, tables_cache,
                   catalog_cache, runs, calls, out>>

DbStep ==
    /\ dbChanges < MaxDbChanges
    /\ dbChanges' = dbChanges + 1
    /\ UNCHANGED <<env, now, tables_cache, catalog_cache, runs, calls, out>>

\* Another session runs CREATE TABLE / VIEW / FOREIGN TABLE.
CreateRelation ==
    /\ DbStep
    /\ \E r \in Universe \ relations : relations' = relations \cup {r}
    /\ UNCHANGED pg_description

\* Another session runs DROP: the relation's comments go with it.
DropRelation ==
    /\ DbStep
    /\ \E r \in relations :
        /\ relations' = relations \ {r}
        /\ pg_description' =
              {d \in pg_description :
                  ~(d.classoid = "pg_class" /\ d.objoid = r.oid)}

\* Another session runs COMMENT ON TABLE / COLUMN ... IS text or IS NULL.
CommentOnRelation ==
    /\ DbStep
    /\ \E r \in relations, subid \in 0..2, text \in ClassComments \cup {NULL} :
        /\ subid <= Len(r.columns)
        /\ LET others == {d \in pg_description :
                             ~(/\ d.classoid = "pg_class"
                               /\ d.objoid = r.oid
                               /\ d.objsubid = subid)}
           IN  pg_description' =
                  IF text = NULL THEN others
                  ELSE others \cup {Desc(r.oid, "pg_class", subid, text)}
    /\ pg_description' # pg_description
    /\ UNCHANGED relations

\* Another session runs COMMENT ON FUNCTION for a function whose oid in
\* pg_proc equals a table's oid in pg_class.
CommentOnFunction ==
    /\ DbStep
    /\ \E oid \in ProcOids, text \in ProcComments :
        pg_description' =
            {d \in pg_description :
                ~(d.classoid = "pg_proc" /\ d.objoid = oid)}
            \cup {Desc(oid, "pg_proc", 0, text)}
    /\ pg_description' # pg_description
    /\ UNCHANGED relations

\* The table lists a direct call of fetch_catalog may pass.
CallTables == {<<>>, <<RelU.name>>}

\* One call of fetch_tables, lines 69-74.
CallFetchTables ==
    /\ calls < MaxCalls
    /\ calls' = calls + 1
    /\ UNCHANGED <<env, relations, pg_description, dbChanges, now,
                   catalog_cache, runs>>
    /\ \E schema \in Schemas :
        LET t == fetch_tables(schema)
        IN  /\ out' = [Started(schema, <<>>) EXCEPT
                          !.op = "fetch_tables", !.tcall = t.info,
                          !.tables_in_schema = t.value,
                          !.engines = t.engines,
                          !.halted = IF t.stopped THEN "config" ELSE "no",
                          !.config_error = t.stopped]
            /\ tables_cache' = [tables_cache EXCEPT ![schema] = t.entry]

\* One call of fetch_catalog, lines 76-92.
CallFetchCatalog ==
    /\ calls < MaxCalls
    /\ calls' = calls + 1
    /\ UNCHANGED <<env, relations, pg_description, dbChanges, now,
                   tables_cache, runs>>
    /\ \E schema \in Schemas, tables \in CallTables, scan \in ScanChoices :
        LET c == fetch_catalog(schema, tables, scan)
        IN  /\ out' = [Started(schema, <<>>) EXCEPT
                          !.op = "fetch_catalog", !.selected_tables = tables,
                          !.ccall = c.info, !.fetched = ~c.stopped,
                          !.df = c.value, !.engines = c.engines,
                          !.halted = IF c.stopped THEN "config" ELSE "no",
                          !.config_error = c.stopped]
            /\ catalog_cache' = PutCatalogEntry(schema, tables, c.entry)

Next ==
    \/ Rerun
    \/ Advance
    \/ CreateRelation
    \/ DropRelation
    \/ CommentOnRelation
    \/ CommentOnFunction

Spec == Init /\ [][Next]_vars

\* The cached functions called directly, at any arguments.
CallsNext ==
    \/ CallFetchTables
    \/ CallFetchCatalog
    \/ Advance
    \/ CreateRelation
    \/ DropRelation
    \/ CommentOnRelation
    \/ CommentOnFunction

CallsSpec == Init /\ [][CallsNext]_vars

-----------------------------------------------------------------------------
(* Properties *)

Elems(xs) == {xs[k] : k \in 1..Len(xs)}

\* The last step was a call that returned.
ReturnedTables == out.op = "fetch_tables" /\ out.halted = "no"
ReturnedCatalog == out.op = "fetch_catalog" /\ out.halted = "no"

\* Nothing has changed in the database since the last step's query.
DbAsQueried == out.dbv = dbChanges

\* What the two queries give on the database as it is now.
CurrentTables(schema) == TABLES_SQL(schema)

CurrentCatalogs(schema, tables) ==
    {[k \in 1..Len(q) |->
        [q[k] EXCEPT
            !.table_description = IF @ = NULL THEN <<>> ELSE @,
            !.column_description = IF @ = NULL THEN <<>> ELSE @]]
     : q \in {CATALOG_SQL(schema, tables, tables = <<>>, scan)
                : scan \in ScanOrders}}

\* A call found a result stored less than 300 seconds before it.
FoundInWindow(call) == call.entryAt >= 0 /\ out.at - call.entryAt < TTL

\* C1 (as amended): a call of fetch_catalog or fetch_tables that finds a
\* result stored for its arguments less than 300 seconds ago issues no query
\* and returns exactly that stored result, whatever happened to the catalog
\* since; a call that finds none, or one stored 300 seconds ago or more,
\* issues a query and returns the catalog as it is at that moment.  The
\* window runs from the call that queried, not from the latest call.
C1_ServedWithinTtlOfTheQuery ==
    /\ ReturnedCatalog =>
          IF FoundInWindow(out.ccall)
          THEN ~out.ccall.queried /\ out.df = out.ccall.entryValue
          ELSE /\ out.ccall.queried
               /\ DbAsQueried =>
                     out.df \in CurrentCatalogs(out.selected_schema,
                                                out.selected_tables)
    /\ ReturnedTables =>
          IF FoundInWindow(out.tcall)
          THEN ~out.tcall.queried
               /\ out.tables_in_schema = out.tcall.entryValue
          ELSE /\ out.tcall.queried
               /\ DbAsQueried =>
                     out.tables_in_schema = CurrentTables(out.selected_schema)

\* C1 witness: fetch_catalog answered from the cache with rows that the
\* catalog, changed in between, would no longer give.
C1_StaleResultServed ==
    /\ ReturnedCatalog
    /\ ~out.ccall.queried
    /\ DbAsQueried
    /\ out.df \notin CurrentCatalogs(out.selected_schema, out.selected_tables)

\* C1 (as claimed): of two successive calls with identical arguments less
\* than 300 seconds apart, the second issues no query and returns the result
\* of the first.
C1_ServedWithinTtlOfTheLastCall ==
    [][(/\ calls' = calls + 1
        /\ out.halted = "no"
        /\ out'.halted = "no"
        /\ out.op \in {"fetch_tables", "fetch_catalog"}
        /\ out'.op = out.op
        /\ out'.selected_schema = out.selected_schema
        /\ out'.selected_tables = out.selected_tables
        /\ out'.at - out.at < TTL)
       => (/\ ~out'.tcall.queried
           /\ ~out'.ccall.queried
           /\ out'.df = out.df
           /\ out'.tables_in_schema = out.tables_in_schema)]_vars

\* The relations of a schema that exist now.
RelationsOf(schema) == {r \in relations : r.schema = schema}

HasColumn(r, name) == \E i \in 1..Len(r.columns) : r.columns[i].column_name = name

ConfigIncomplete == \E v \in EnvNames : env[v] = None \/ env[v] = ""

\* C4: with one of the five variables unset or empty no engine is built, no
\* query is issued and nothing is ever cached, and a run of the script ends
\* at the configuration error: no rows, no metrics, no description panel and
\* no column listing.
C4_NoConnectionWithoutConfiguration ==
    ConfigIncomplete =>
        /\ out.engines = 0
        /\ ~out.tcall.queried
        /\ ~out.ccall.queried
        /\ \A s \in Schemas : tables_cache[s] = NoEntry
        /\ catalog_cache = {}
        /\ out.op = "script" =>
            /\ out.halted = "config"
            /\ out.config_error
            /\ ~out.fetched
            /\ ~out.filtered
            /\ out.metrics = <<>>
            /\ ~out.no_results
            /\ out.panel = NoPanel
            /\ ~out.listed

\* C4 witness: the script ran with DB_PASSWORD empty and stopped at the
\* configuration error.
C4_RunStoppedAtConfigurationError ==
    /\ env["DB_PASSWORD"] = ""
    /\ out.op = "script"
    /\ out.halted = "config"
    /\ out.config_error

\* Whether the literal string f occurs in s (Python's  f in s).
IsSubstring(f, s) ==
    \E i \in 0..(Len(s) - Len(f)) :
        \A j \in 1..Len(f) : s[i + j] = f[j]

\* Whether f occurs literally in one of the four fields of r, lowercased.
LiteralMatch(r, f) ==
    \/ IsSubstring(f, lower(r.table_name))
    \/ IsSubstring(f, lower(r.column_name))
    \/ IsSubstring(f, lower(r.table_description))
    \/ IsSubstring(f, lower(r.column_description))

\* C2 (as claimed): the filter step returns the fetched rows unchanged for a
\* filter that is empty once trimmed, and otherwise exactly the rows in
\* which the filter, trimmed and lowercased, occurs as a literal substring
\* of one of the four lowercased fields.
C2_FilterKeepsLiteralMatches ==
    (out.op = "script" /\ out.fetched) =>
        /\ out.filtered
        /\ out.shown =
              IF strip(out.text_filter) = <<>> THEN out.df
              ELSE SelectSeq(out.df,
                     LAMBDA r : LiteralMatch(r, lower(strip(out.text_filter))))

\* The non-empty descriptions of a table among the rows shown, in row order.
DescriptionsShown(table) ==
    LET of_table == SelectSeq(out.shown, LAMBDA r : r.table_name = table)
    IN  SelectSeq([k \in 1..Len(of_table) |-> of_table[k].table_description],
                  LAMBDA d : d # <<>> /\ d # NULL)

\* C5 (as claimed): the single-table panel shows the first non-empty
\* description found among the table's rows, and the placeholder when the
\* table has no non-empty description.
C5_DescriptionOrPlaceholder ==
    (out.op = "script" /\ out.panel.kind = "table") =>
        out.panel.value =
            IF DescriptionsShown(out.panel.table) # <<>>
            THEN DescriptionsShown(out.panel.table)[1]
            ELSE NoDescription

NoNullDescription(rows) ==
    \A k \in 1..Len(rows) :
        /\ rows[k].table_description # NULL
        /\ rows[k].column_description # NULL

\* The relation a fetched row is of.
RelationOfRow(row) ==
    CHOOSE r \in Universe :
        r.schema = row.table_schema /\ r.name = row.table_name

Ordinal(row) ==
    LET r == RelationOfRow(row)
    IN  CHOOSE i \in 1..Len(r.columns) :
            r.columns[i].column_name = row.column_name

\* pg_description holds nothing under the relation's oid and this objsubid,
\* or the relation is none that the join finds an oid for.
NoCommentFor(r, subid) ==
    \/ r.type # "BASE TABLE"
    \/ ~\E d \in pg_description : d.objoid = r.oid /\ d.objsubid = subid

\* C6: no row that fetch_catalog returns, keeps in its cache, hands to the
\* filter or to the display has a null description; a freshly fetched row
\* of a table or column for which no comment is stored has the empty string.
C6_DescriptionsAreStrings ==
    /\ NoNullDescription(out.df)
    /\ NoNullDescription(out.shown)
    /\ \A k \in 1..Len(out.listing) : out.listing[k].column_description # NULL
    /\ \A e \in catalog_cache : NoNullDescription(e.value)
    /\ (out.op = "script" /\ out.fetched /\ out.ccall.queried /\ DbAsQueried)
        => \A k \in 1..Len(out.df) :
              /\ NoCommentFor(RelationOfRow(out.df[k]), 0)
                    => out.df[k].table_description = <<>>
              /\ NoCommentFor(RelationOfRow(out.df[k]), Ordinal(out.df[k]))
                    => out.df[k].column_description = <<>>

\* C6 witness: rows served from the cache were listed, one of a column that
\* has no comment, shown with the empty string.
C6_UncommentedColumnListed ==
    /\ out.op = "script"
    /\ out.listed
    /\ ~out.ccall.queried
    /\ DbAsQueried
    /\ \E k \in 1..Len(out.shown) :
        /\ NoCommentFor(RelationOfRow(out.shown[k]), Ordinal(out.shown[k]))
        /\ RelationOfRow(out.shown[k]) \in relations
        /\ out.listing[k].column_description = <<>>

\* C7 (as claimed): a fresh fetch_catalog result has exactly one row for
\* every column of every selected relation, whatever pg_description holds.
C7_OneRowPerColumn ==
    (out.op = "script" /\ out.fetched /\ out.ccall.queried /\ DbAsQueried) =>
        \A r \in RelationsOf(out.selected_schema) :
            (out.selected_tables = <<>> \/ r.name \in Elems(out.selected_tables))
            => \A i \in 1..Len(r.columns) :
                  Cardinality({k \in 1..Len(out.df) :
                      /\ out.df[k].table_name = r.name
                      /\ out.df[k].column_name = r.columns[i].column_name}) = 1

\* Rows ordered by table name and, within a table, by ordinal position.
InCatalogOrder(rows) ==
    \A i, j \in 1..Len(rows) :
        i < j =>
            \/ StrLess(rows[i].table_name, rows[j].table_name)
            \/ /\ rows[i].table_name = rows[j].table_name
               /\ Ordinal(rows[i]) <= Ordinal(rows[j])

\* a can be had from b by leaving rows out.
RECURSIVE IsSubsequence(_, _)
IsSubsequence(a, b) ==
    IF a = <<>> THEN TRUE
    ELSE IF b = <<>> THEN FALSE
    ELSE IF Head(a) = Head(b) /\ IsSubsequence(Tail(a), Tail(b)) THEN TRUE
    ELSE IsSubsequence(a, Tail(b))

\* C8: the rows fetch_catalog returns are ordered by table name and then by
\* ordinal position; the filter leaves rows out and moves none; the listing
\* shows the filtered rows one by one in that order.
C8_ColumnsInDeclarationOrder ==
    out.op = "script" =>
        /\ InCatalogOrder(out.df)
        /\ IsSubsequence(out.shown, out.df)
        /\ InCatalogOrder(out.shown)
        /\ out.listed =>
            /\ Len(out.listing) = Len(out.shown)
            /\ \A k \in 1..Len(out.shown) :
                /\ out.listing[k].column_name = out.shown[k].column_name
                /\ out.listing[k].data_type = out.shown[k].data_type
                /\ out.listing[k].column_description =
                      out.shown[k].column_description

\* C8 witness: with a filter typed in, the listing shows column "id" right
\* before column "ab" of the same table: declared, not alphabetical, order.
C8_DeclaredOrderListedUnderFilter ==
    /\ out.op = "script"
    /\ out.listed
    /\ strip(out.text_filter) # <<>>
    /\ \E k \in 1..(Len(out.shown) - 1) :
        /\ out.shown[k].table_name = out.shown[k + 1].table_name
        /\ out.listing[k].column_name = <<"i", "d">>
        /\ out.listing[k + 1].column_name = <<"a", "b">>

\* C9: a run whose filtered row set is empty shows the metrics with 0 tables
\* and 0 columns and the "no results" message and stops there, with no
\* configuration error, no description panel and no column listing.
C9_EmptyResultStopsAfterMetrics ==
    (out.op = "script" /\ out.filtered /\ out.shown = <<>>) =>
        /\ out.metrics = <<out.selected_schema, 0, 0>>
        /\ out.no_results
        /\ out.halted = "empty"
        /\ ~out.config_error
        /\ out.panel = NoPanel
        /\ ~out.listed
        /\ out.listing = <<>>

\* C9 witness: the filter left none of the fetched rows and the run stopped.
C9_FilterLeftNothing ==
    /\ out.op = "script"
    /\ out.df # <<>>
    /\ out.filtered
    /\ out.shown = <<>>
    /\ out.halted = "empty"

\* C10 (as claimed): choosing the selector's entry for a table n (any entry
\* after the first) makes the script call fetch_catalog with [n] and, when
\* it gets to the description panel, show the panel of n; fetch_catalog is
\* called with the empty list only for the first entry.
C10_EntryOfTableSelectsThatTable ==
    (out.op = "script" /\ out.ccall.made) =>
        /\ out.selected_index > 1 =>
            /\ out.selected_tables = <<out.table_options[out.selected_index]>>
            /\ out.halted = "no" =>
                /\ out.panel.kind = "table"
                /\ out.panel.table = out.table_options[out.selected_index]
        /\ out.selected_tables = <<>> => out.selected_index = 1

====
